---- MODULE Spec2Model ----
(***************************************************************************)
(* A model of the AI Study Partner chat session (src/app.py).              *)
(*                                                                         *)
(* The session state is Streamlit's st.session_state (messages,            *)
(* planning_active, pending_question) together with the two sidebar        *)
(* widgets the handlers read (api_key, condition).  One action models one  *)
(* script run: the Reset Chat button, the planning form's submit button,   *)
(* the chat input, or a change of a sidebar widget.  The completion        *)
(* provider is the environment: each call's outcome is chosen              *)
(* nondeterministically among the outcomes the provider can produce.       *)
(*                                                                         *)
(* Three variables record what the last script run did (calls, trace,      *)
(* last); they are the provider's and the chat surface's view of the run.  *)
(***************************************************************************)
EXTENDS Integers, Sequences, FiniteSets, TLC

VARIABLES
    messages,          \* st.session_state.messages: sequence of [role, content]
    planning_active,   \* st.session_state.planning_active
    pending_question,  \* st.session_state.pending_question
    api_key,           \* the credential read in the sidebar ("" when absent)
    condition,         \* the sidebar's condition radio
    calls,             \* provider requests made by the last script run, in order
    trace,             \* the events of the last script run, in order
    last               \* the last script run: which handler ran, on which inputs

vars == <<messages, planning_active, pending_question, api_key, condition,
          calls, trace, last>>

state == <<messages, planning_active, pending_question>>

----------------------------------------------------------------------------
(* Bounds of the model *)

\* SendMessage is accepted while the history holds fewer messages than this
MaxMsgs == 3
\* the longest chunk sequence a completion stream delivers
MaxChunks == 1

----------------------------------------------------------------------------
(* Values *)

\* Python's None / a present value, for an optional field
None == <<>>
Some(v) == <<v>>

GREETING == "Hi! I'm your AI Study Partner. Ask me anything about the reading."

STANDARD == "Standard GenAI"
PLANNING == "Planning-Intervention GenAI"
Conditions == {STANDARD, PLANNING}

Msg(role, content) == [role |-> role, content |-> content]

\* what the user can type in the chat input (st.chat_input returns None, not
\* "", when nothing was submitted, so a prompt is never empty)
Prompts == {"What is Speciation?", "Why?"}

\* the credentials the sidebar can hold
ApiKeys == {"", "gsk_key"}

----------------------------------------------------------------------------
(* The completion stream: parse_groq_stream and get_ai_response *)

\* the content deltas a chunk can carry
Deltas == {"", "a"}

\* a chunk has no choices, or one choice whose delta content is None or a text
Chunks ==
    {[choices |-> <<>>]}
    \cup {[choices |-> <<[delta |-> [content |-> c]]>>] :
             c \in {None} \cup {Some(d) : d \in Deltas}}

ChunkSeqs == UNION {[1..n -> Chunks] : n \in 0..MaxChunks}

\* An outcome of client.chat.completions.create(..., stream=True) and of the
\* iteration over the stream it returns: the request raises (createFails), or
\* the stream delivers `chunks` and then ends, normally or by raising.
StreamOutcomes ==
    {[createFails |-> TRUE, chunks |-> <<>>, raises |-> FALSE]}
    \cup {[createFails |-> FALSE, chunks |-> cs, raises |-> r] :
             cs \in ChunkSeqs, r \in BOOLEAN}

\* parse_groq_stream testing `if content:` instead of `is not None`
RECURSIVE parse_groq_stream_truthy(_)
parse_groq_stream_truthy(stream) ==
    IF stream = <<>> THEN <<>>
    ELSE LET chunk == Head(stream)
             rest == parse_groq_stream_truthy(Tail(stream))
         IN IF chunk.choices # <<>>
            THEN IF /\ chunk.choices[1].delta.content # None
                    /\ chunk.choices[1].delta.content[1] # ""
                 THEN <<chunk.choices[1].delta.content[1]>> \o rest
                 ELSE rest
            ELSE rest

\* the fragments the generator yields for the chunks delivered
RECURSIVE parse_groq_stream(_)
parse_groq_stream(stream) ==
    IF stream = <<>> THEN <<>>
    ELSE LET chunk == Head(stream)
             rest == parse_groq_stream(Tail(stream))
         IN IF chunk.choices # <<>>
            THEN IF chunk.choices[1].delta.content # None
                 THEN <<chunk.choices[1].delta.content[1]>> \o rest
                 ELSE rest
            ELSE rest

\* st.write_stream: the concatenation of the text fragments ("" when nothing
\* was written)
RECURSIVE write_stream(_)
write_stream(fragments) ==
    IF fragments = <<>> THEN ""
    ELSE Head(fragments) \o write_stream(Tail(fragments))

\* get_ai_response with the try around the request only: a stream that
\* raises returns what was streamed so far
get_ai_response_keeps_partial(msgs, outcome) ==
    IF outcome.createFails
    THEN None
    ELSE Some(write_stream(parse_groq_stream(outcome.chunks)))

\* get_ai_response: the text streamed, or None when the request or the
\* iteration raised
get_ai_response(msgs, outcome) ==
    IF outcome.createFails \/ outcome.raises
    THEN None
    ELSE Some(write_stream(parse_groq_stream(outcome.chunks)))

\* Python truthiness of the value get_ai_response returns (`if response:`)
Truthy(response) == response # None /\ response[1] # ""

\* What one get_ai_response call did, as the chat surface saw it: where the
\* provider failed (if it did), the text st.write_stream had rendered by then,
\* and the value returned.
stream_result(msgs, outcome) ==
    [failed |-> IF outcome.createFails THEN "create"
                ELSE IF outcome.raises THEN "stream" ELSE "none",
     rendered |-> IF outcome.createFails THEN ""
                  ELSE write_stream(parse_groq_stream(outcome.chunks)),
     response |-> get_ai_response(msgs, outcome)]

----------------------------------------------------------------------------
(* The router: is_new_topic *)

\* Router reply texts are sequences of characters, so that strip(), upper()
\* and the substring test are computed and not assumed.
Lower == <<"a","b","c","d","e","f","g","h","i","j","k","l","m",
           "n","o","p","q","r","s","t","u","v","w","x","y","z">>
Upper == <<"A","B","C","D","E","F","G","H","I","J","K","L","M",
           "N","O","P","Q","R","S","T","U","V","W","X","Y","Z">>
Whitespace == {" ", "\n", "\t"}

\* str.upper(), one character
upper_char(c) ==
    IF \E i \in 1..Len(Lower) : Lower[i] = c
    THEN Upper[CHOOSE i \in 1..Len(Lower) : Lower[i] = c]
    ELSE c

\* str.upper()
upper(text) == [i \in 1..Len(text) |-> upper_char(text[i])]

\* str.strip(): leading and trailing whitespace removed
RECURSIVE lstrip(_)
lstrip(text) ==
    IF text # <<>> /\ Head(text) \in Whitespace THEN lstrip(Tail(text)) ELSE text

RECURSIVE rstrip(_)
rstrip(text) ==
    IF text # <<>> /\ text[Len(text)] \in Whitespace
    THEN rstrip(SubSeq(text, 1, Len(text) - 1))
    ELSE text

strip(text) == rstrip(lstrip(text))

\* Python's `sub in text` on strings
Contains(sub, text) ==
    \E i \in 1..(Len(text) - Len(sub) + 1) :
        SubSeq(text, i, i + Len(sub) - 1) = sub

NEW_TOKEN == <<"N","E","W">>

\* the reply texts the provider is taken to produce
RouterTexts ==
    { <<"N","E","W">>,
      <<" ","n","e","w","\n">>,
      <<"R","e","n","e","w">>,
      <<"C","O","N","T","I","N","U","A","T","I","O","N">>,
      <<"m","a","y","b","e">>,
      <<>> }

\* An outcome of the router's client.chat.completions.create(...): the call
\* raises, or it returns a completion whose choices may be empty and whose
\* message content may be None.
RouterOutcomes ==
    {[raises |-> TRUE, choices |-> <<>>]}
    \cup {[raises |-> FALSE, choices |-> <<>>]}
    \cup {[raises |-> FALSE, choices |-> <<[message |-> [content |-> c]]>>] :
             c \in {None} \cup {Some(t) : t \in RouterTexts}}

NoRouter == [raises |-> FALSE, choices |-> <<>>]

\* context = history[-2:] if len(history) >= 2 else history
router_context(history) ==
    IF Len(history) >= 2 THEN SubSeq(history, Len(history) - 1, Len(history))
    ELSE history

\* the router's request: one user message holding the f-string's two fields
router_request(history, new_prompt) ==
    [kind |-> "route",
     messages |-> <<Msg("user", [context |-> router_context(history),
                                 new_prompt |-> new_prompt])>>]

\* whether is_new_topic gets as far as calling the provider
router_calls_provider(history) == history # <<>>

\* is_new_topic without its `if not history: return True`
is_new_topic_no_shortcut(history, new_prompt, outcome) ==
    IF outcome.raises THEN TRUE
    ELSE IF outcome.choices = <<>> THEN TRUE
    ELSE IF outcome.choices[1].message.content = None THEN TRUE
    ELSE Contains(NEW_TOKEN, upper(strip(outcome.choices[1].message.content[1])))

\* is_new_topic comparing the reply with "NEW" instead of searching it
is_new_topic_exact(history, new_prompt, outcome) ==
    IF history = <<>> THEN TRUE
    ELSE IF outcome.raises THEN TRUE
    ELSE IF outcome.choices = <<>> THEN TRUE
    ELSE IF outcome.choices[1].message.content = None THEN TRUE
    ELSE upper(strip(outcome.choices[1].message.content[1])) = NEW_TOKEN

\* is_new_topic with an `except: return False`
is_new_topic_fails_open(history, new_prompt, outcome) ==
    IF history = <<>> THEN TRUE
    ELSE IF outcome.raises THEN FALSE
    ELSE IF outcome.choices = <<>> THEN FALSE
    ELSE IF outcome.choices[1].message.content = None THEN FALSE
    ELSE Contains(NEW_TOKEN, upper(strip(outcome.choices[1].message.content[1])))

\* is_new_topic's return value (True = new topic)
is_new_topic(history, new_prompt, outcome) ==
    IF history = <<>> THEN TRUE
    ELSE IF outcome.raises THEN TRUE                                  \* except:
    ELSE IF outcome.choices = <<>> THEN TRUE                          \* IndexError
    ELSE IF outcome.choices[1].message.content = None THEN TRUE       \* AttributeError
    ELSE Contains(NEW_TOKEN, upper(strip(outcome.choices[1].message.content[1])))

----------------------------------------------------------------------------
(* The planning form *)

ScopeLabels == <<"Core Definitions", "Step-by-Step Process",
                 "Concrete Example", "Common Misconceptions">>

DepthOptions ==
    {"Quick Summary (I just need the big picture or a refresher)",
     "Detailed Explanation (I need to understand the \"why\" and \"how\" deeply)",
     "Application Practice (Give me a new scenario to solve to test my understanding)"}

\* what the user can have entered when the form is submitted: the ticked
\* checkboxes (by position), the "Other" text, the depth and the confusion text
PlanInputs ==
    [checks : {{}, {1, 3}},
     other_text : {"", "drift"},
     depth : DepthOptions,
     prior : {"", "I don't get how"}]

\* scope_selection, as the form builds it
RECURSIVE checked_labels(_, _)
checked_labels(checks, i) ==
    IF i > Len(ScopeLabels) THEN <<>>
    ELSE (IF i \in checks THEN <<ScopeLabels[i]>> ELSE <<>>)
         \o checked_labels(checks, i + 1)

scope_selection(plan) ==
    checked_labels(plan.checks, 1)
    \o (IF plan.other_text # "" THEN <<"Other: " \o plan.other_text>> ELSE <<>>)

\* ", ".join(items)
RECURSIVE join(_)
join(items) ==
    IF items = <<>> THEN ""
    ELSE IF Len(items) = 1 THEN items[1]
    ELSE items[1] \o ", " \o join(Tail(items))

scope_str(plan) ==
    IF scope_selection(plan) # <<>> THEN join(scope_selection(plan))
    ELSE "General Overview"

\* the synthesized instruction
sys_instruction(question, plan) ==
    "User Question: '" \o question \o "'. "
    \o "Constraints -> Scope: " \o scope_str(plan) \o ". Depth: " \o plan.depth
    \o ". Confusion: " \o plan.prior \o ". "
    \o "Answer strictly based on this plan."

\* msgs = [{"role": m["role"], "content": m["content"]} for m in messages]
\* msgs.append({"role": "user", "content": sys_instruction})
plan_msgs(history, question, plan) ==
    Append([i \in 1..Len(history) |->
                Msg(history[i].role, history[i].content)],
           Msg("user", sys_instruction(question, plan)))

\* the streaming completion request get_ai_response sends
completion_request(msgs) == [kind |-> "completion", messages |-> msgs]

----------------------------------------------------------------------------
(* Guards of the handlers *)

\* the handlers without their `if api_key:` guard
has_api_key_unchecked == TRUE

\* `if api_key:`
has_api_key == api_key # ""

\* the main input handler routing under either condition
requires_planning_always == TRUE

\* `if condition == "Planning-Intervention GenAI":`
requires_planning == condition = PLANNING

\* the router handed the whole history, the sent message included
router_history_full(msgs) == msgs

\* st.session_state.messages[:-1], the history handed to the router
router_history(msgs) == SubSeq(msgs, 1, Len(msgs) - 1)

GreetingOnly == <<Msg("assistant", GREETING)>>

----------------------------------------------------------------------------
(* The state after construction: the first script run *)

Init ==
    /\ messages = GreetingOnly
    /\ planning_active = FALSE
    /\ pending_question = ""
    /\ api_key \in ApiKeys
    /\ condition \in Conditions
    /\ calls = <<>>
    /\ trace = <<>>
    /\ last = [action |-> "init", prompt |-> None, router |-> None,
               stream |-> None, plan |-> None]

----------------------------------------------------------------------------
(* Script runs *)

\* a reset to an empty history
reset_state_empty(s) == <<<<>>, FALSE, "">>

\* a reset that appends the greeting to the history instead of replacing it
reset_state_appends(s) == <<Append(s[1], Msg("assistant", GREETING)), FALSE, "">>

\* The three assignments of the Reset Chat button, as a function of the
\* session state <<messages, planning_active, pending_question>>
reset_state(s) == <<GreetingOnly, FALSE, "">>

\* The Reset Chat button.
ResetChat ==
    /\ messages' = reset_state(state)[1]
    /\ planning_active' = reset_state(state)[2]
    /\ pending_question' = reset_state(state)[3]
    /\ UNCHANGED <<api_key, condition>>
    /\ calls' = <<>>
    /\ trace' = <<"reset", "rerun">>
    /\ last' = [action |-> "reset", prompt |-> None, router |-> None,
                stream |-> None, plan |-> None]

\* the events of one get_ai_response call and of the `if response:` after it
answer_events(response) ==
    <<"completion">>
    \o (IF response = None THEN <<"error">> ELSE <<>>)
    \o (IF Truthy(response) THEN <<"append_assistant">> ELSE <<>>)

\* an append that overwrites the last message with the reply
append_response_replaces(msgs, response) ==
    IF Truthy(response)
    THEN Append(SubSeq(msgs, 1, Len(msgs) - 1), Msg("assistant", response[1]))
    ELSE msgs

\* `if response: messages.append({"role": "assistant", "content": response})`
append_response(msgs, response) ==
    IF Truthy(response) THEN Append(msgs, Msg("assistant", response[1]))
    ELSE msgs

\* commit_plan_response without the line that clears pending_question
commit_plan_response_keeps_question(response) ==
    /\ messages' = append_response(messages, response)
    /\ planning_active' = (IF Truthy(response) THEN FALSE ELSE planning_active)
    /\ pending_question' = pending_question

\* `if response:` of the planning form: the reply is appended and the session
\* leaves planning
commit_plan_response(response) ==
    /\ messages' = append_response(messages, response)
    /\ planning_active' = (IF Truthy(response) THEN FALSE ELSE planning_active)
    /\ pending_question' = (IF Truthy(response) THEN "" ELSE pending_question)

\* The planning form's Generate Response button.
PlanningFormSubmit ==
    /\ planning_active
    /\ \E plan \in PlanInputs :
         IF has_api_key
         THEN \E outcome \in StreamOutcomes :
                LET msgs == plan_msgs(messages, pending_question, plan)
                    response == get_ai_response(msgs, outcome)
                IN /\ commit_plan_response(response)
                   /\ calls' = <<completion_request(msgs)>>
                   /\ trace' = answer_events(response)
                                 \o (IF Truthy(response) THEN <<"rerun">> ELSE <<>>)
                   /\ last' = [action |-> "submit", prompt |-> None,
                               router |-> None, stream |-> Some(stream_result(msgs, outcome)),
                               plan |-> Some(plan)]
         ELSE /\ UNCHANGED <<messages, planning_active, pending_question>>
              /\ calls' = <<>>
              /\ trace' = <<"error">>
              /\ last' = [action |-> "submit", prompt |-> None, router |-> None,
                          stream |-> None, plan |-> Some(plan)]
    /\ UNCHANGED <<api_key, condition>>

\* a direct answer that sends the completion request a second time
direct_answer_retries(msgs, prompt, router, outcome, calls_so_far, trace_so_far) ==
    LET response == get_ai_response(msgs, outcome)
    IN /\ messages' = append_response(msgs, response)
       /\ UNCHANGED <<planning_active, pending_question>>
       /\ calls' = calls_so_far
                    \o <<completion_request(msgs), completion_request(msgs)>>
       /\ trace' = trace_so_far \o <<"completion">> \o answer_events(response)
       /\ last' = [action |-> "send", prompt |-> Some(prompt), router |-> router,
                   stream |-> Some(stream_result(msgs, outcome)), plan |-> None]

\* get_ai_response on the full history, then the append on a truthy response
\* (both direct-answer branches of the main input handler)
direct_answer(msgs, prompt, router, outcome, calls_so_far, trace_so_far) ==
    LET response == get_ai_response(msgs, outcome)
    IN /\ messages' = append_response(msgs, response)
       /\ UNCHANGED <<planning_active, pending_question>>
       /\ calls' = Append(calls_so_far, completion_request(msgs))
       /\ trace' = trace_so_far \o answer_events(response)
       /\ last' = [action |-> "send", prompt |-> Some(prompt), router |-> router,
                   stream |-> Some(stream_result(msgs, outcome)), plan |-> None]

\* a new-topic branch that takes the sent message back out of the history
enter_planning_drops_message(msgs, prompt, router, calls_so_far, trace_so_far) ==
    /\ messages' = SubSeq(msgs, 1, Len(msgs) - 1)
    /\ pending_question' = prompt
    /\ planning_active' = TRUE
    /\ calls' = calls_so_far
    /\ trace' = trace_so_far \o <<"rerun">>
    /\ last' = [action |-> "send", prompt |-> Some(prompt), router |-> router,
                stream |-> None, plan |-> None]

\* the new-topic branch without `planning_active = True`
enter_planning_forgets_flag(msgs, prompt, router, calls_so_far, trace_so_far) ==
    /\ messages' = msgs
    /\ pending_question' = prompt
    /\ planning_active' = planning_active
    /\ calls' = calls_so_far
    /\ trace' = trace_so_far \o <<"rerun">>
    /\ last' = [action |-> "send", prompt |-> Some(prompt), router |-> router,
                stream |-> None, plan |-> None]

\* The new-topic branch of the main input handler.
enter_planning(msgs, prompt, router, calls_so_far, trace_so_far) ==
    /\ messages' = msgs
    /\ pending_question' = prompt
    /\ planning_active' = TRUE
    /\ calls' = calls_so_far
    /\ trace' = trace_so_far \o <<"rerun">>
    /\ last' = [action |-> "send", prompt |-> Some(prompt), router |-> router,
                stream |-> None, plan |-> None]

\* The chat input.
MainInputHandler ==
    /\ ~planning_active
    /\ Len(messages) < MaxMsgs
    /\ \E prompt \in Prompts :
         LET msgs == Append(messages, Msg("user", prompt))
             history == router_history(msgs)
         IN IF has_api_key
            THEN IF requires_planning
                 THEN \E ro \in (IF router_calls_provider(history)
                                 THEN RouterOutcomes ELSE {NoRouter}) :
                        LET routed == router_calls_provider(history)
                            rcalls == IF routed
                                      THEN <<router_request(history, prompt)>>
                                      ELSE <<>>
                            rtrace == <<"append_user">>
                                      \o (IF routed THEN <<"route">> ELSE <<>>)
                            router == IF routed THEN Some(ro) ELSE None
                        IN IF is_new_topic(history, prompt, ro)
                           THEN enter_planning(msgs, prompt, router, rcalls, rtrace)
                           ELSE \E outcome \in StreamOutcomes :
                                  direct_answer(msgs, prompt, router, outcome,
                                                rcalls, rtrace)
                 ELSE \E outcome \in StreamOutcomes :
                        direct_answer(msgs, prompt, None, outcome,
                                      <<>>, <<"append_user">>)
            ELSE /\ messages' = msgs
                 /\ UNCHANGED <<planning_active, pending_question>>
                 /\ calls' = <<>>
                 /\ trace' = <<"append_user", "error">>
                 /\ last' = [action |-> "send", prompt |-> Some(prompt),
                             router |-> None, stream |-> None, plan |-> None]
    /\ UNCHANGED <<api_key, condition>>

\* a condition radio that abandons the planning form
SetCondition_leaves_planning ==
    /\ \E c \in Conditions \ {condition} : condition' = c
    /\ planning_active' = FALSE
    /\ pending_question' = ""
    /\ UNCHANGED <<messages, api_key>>
    /\ calls' = <<>>
    /\ trace' = <<>>
    /\ last' = [action |-> "condition", prompt |-> None, router |-> None,
                stream |-> None, plan |-> None]

\* The condition radio is changed: the script reruns and no handler fires.
SetCondition ==
    /\ \E c \in Conditions \ {condition} : condition' = c
    /\ UNCHANGED <<messages, planning_active, pending_question, api_key>>
    /\ calls' = <<>>
    /\ trace' = <<>>
    /\ last' = [action |-> "condition", prompt |-> None, router |-> None,
                stream |-> None, plan |-> None]

\* The API key field is changed: the script reruns and no handler fires.
SetApiKey ==
    /\ \E k \in ApiKeys \ {api_key} : api_key' = k
    /\ UNCHANGED <<messages, planning_active, pending_question, condition>>
    /\ calls' = <<>>
    /\ trace' = <<>>
    /\ last' = [action |-> "api_key", prompt |-> None, router |-> None,
                stream |-> None, plan |-> None]

Next ==
    \/ ResetChat
    \/ PlanningFormSubmit
    \/ MainInputHandler
    \/ SetCondition
    \/ SetApiKey

Spec == Init /\ [][Next]_vars

----------------------------------------------------------------------------
(* Properties *)

\* the script run that led to this state
IsSend == last.action = "send"
IsSubmit == last.action = "submit"

\* the user message the last send appended
SentMsg == Msg("user", last.prompt[1])

\* the completion requests among the last run's provider calls
CompletionCalls == {i \in 1..Len(calls) : calls[i].kind = "completion"}

\* the router's provider call failed: it raised, returned no choices, or
\* returned a message without content
RouterFailed(ro) ==
    \/ ro.raises
    \/ ro.choices = <<>>
    \/ ro.choices[1].message.content = None

\* C1: in every reachable session state pending_question is non-empty if and
\* only if planning_active is true.
C1_PendingIffPlanning ==
    (pending_question # "") <=> planning_active

\* a failed plan submission has left the session waiting for the plan
C1_Witness ==
    /\ IsSubmit
    /\ planning_active
    /\ pending_question \in Prompts
    /\ last.stream # None

\* C2: every failure of the router's provider call makes is_new_topic return
\* True, and a message sent under Planning-Intervention whose routing call
\* failed leaves the session in planning for exactly that message, with the
\* routing request the only provider call of the run.
C2_RouterFailsToNewTopic ==
    /\ \A ro \in RouterOutcomes, p \in Prompts :
          RouterFailed(ro) => is_new_topic(messages, p, ro)
    /\ (IsSend /\ last.router # None /\ RouterFailed(last.router[1]))
          => /\ planning_active
             /\ pending_question = last.prompt[1]
             /\ messages[Len(messages)] = SentMsg
             /\ CompletionCalls = {}
             /\ Len(calls) = 1

\* a routing call that returned a message without content
C2_Witness ==
    /\ IsSend
    /\ last.router # None
    /\ ~last.router[1].raises
    /\ last.router[1].choices # <<>>
    /\ last.router[1].choices[1].message.content = None
    /\ planning_active

\* C3: without a credential, a sent message and a plan submission make no
\* provider call, add no assistant message and leave planning_active and
\* pending_question alone; the only change is the sent message appended.
C3_NoKeyNoAnswer ==
    [][ (api_key = "" /\ last'.action \in {"send", "submit"})
          => /\ calls' = <<>>
             /\ planning_active' = planning_active
             /\ pending_question' = pending_question
             /\ messages' = IF last'.action = "send"
                            THEN Append(messages, Msg("user", last'.prompt[1]))
                            ELSE messages ]_vars

\* the form was submitted after the credential had been removed
C3_Witness ==
    /\ api_key = ""
    /\ IsSubmit
    /\ planning_active
    /\ trace = <<"error">>

\* C4: when the completion call fails, at the request or while streaming, no
\* assistant message is appended and planning_active and pending_question
\* keep their values; a failed plan submission stays in planning.
C4_FailedCompletionCommitsNothing ==
    [][ (/\ last'.action \in {"send", "submit"}
         /\ last'.stream # None
         /\ last'.stream[1].failed # "none")
          => /\ planning_active' = planning_active
             /\ pending_question' = pending_question
             /\ messages' = IF last'.action = "send"
                            THEN Append(messages, Msg("user", last'.prompt[1]))
                            ELSE messages ]_vars

\* a plan submission whose stream raised after text had been rendered
C4_Witness ==
    /\ IsSubmit
    /\ last.stream # None
    /\ last.stream[1].failed = "stream"
    /\ last.stream[1].rendered # ""
    /\ planning_active

\* C5: whenever a plan submission's stream ends without a provider error,
\* whatever text was streamed (the empty text of a stream whose chunks were
\* all skipped included), that text is appended as one assistant message,
\* pending_question is cleared and planning_active becomes false.
C5_PlanSuccessAlwaysCommits ==
    [][ (/\ last'.action = "submit"
         /\ last'.stream # None
         /\ last'.stream[1].failed = "none")
          => /\ messages' = Append(messages,
                                   Msg("assistant", last'.stream[1].rendered))
             /\ ~planning_active'
             /\ pending_question' = "" ]_vars

\* C6: a message sent under Planning-Intervention with a credential for which
\* the router returns True puts the session in planning for exactly that
\* message, without a completion call; and every sent message is appended to
\* the history first, whatever the condition, the credential or the routing.
C6_NewTopicEntersPlanning ==
    [][ last'.action = "send"
          => /\ SubSeq(messages', 1, Len(messages) + 1)
                  = Append(messages, Msg("user", last'.prompt[1]))
             /\ trace'[1] = "append_user"
             /\ (/\ api_key # ""
                 /\ condition = PLANNING
                 /\ last'.router # None
                 /\ is_new_topic(messages, last'.prompt[1], last'.router[1]))
                  => /\ planning_active'
                     /\ pending_question' = last'.prompt[1]
                     /\ messages' = Append(messages, Msg("user", last'.prompt[1]))
                     /\ \A i \in 1..Len(calls') : calls'[i].kind # "completion" ]_vars

\* the router answered "Renew" and the session waits for the plan
C6_Witness ==
    /\ IsSend
    /\ last.router # None
    /\ ~RouterFailed(last.router[1])
    /\ last.router[1].choices[1].message.content = Some(<<"R","e","n","e","w">>)
    /\ planning_active
    /\ pending_question = last.prompt[1]

\* C7: under Standard, or when the router returns False under
\* Planning-Intervention, the completion request carries exactly the history
\* with the sent message and nothing else, planning_active and
\* pending_question are unchanged, and a stream that ends without a provider
\* error has its text appended as one assistant message.
C7_DirectAnswerCommits ==
    [][ (/\ last'.action = "send"
         /\ api_key # ""
         /\ \/ condition = STANDARD
            \/ /\ last'.router # None
               /\ ~is_new_topic(messages, last'.prompt[1], last'.router[1]))
          => LET sent == Append(messages, Msg("user", last'.prompt[1]))
             IN /\ calls' # <<>>
                /\ calls'[Len(calls')] = completion_request(sent)
                /\ Cardinality({i \in 1..Len(calls') :
                                   calls'[i].kind = "completion"}) = 1
                /\ planning_active' = planning_active
                /\ pending_question' = pending_question
                /\ last'.stream[1].failed = "none"
                     => messages' = Append(sent,
                                           Msg("assistant", last'.stream[1].rendered)) ]_vars

\* C8: under Standard a sent message never makes a routing call, leads with a
\* credential to exactly one completion call on the history with the sent
\* message, and never sets planning_active.
C8_StandardNeverRoutes ==
    [][ (condition = STANDARD /\ last'.action = "send")
          => /\ \A i \in 1..Len(calls') : calls'[i].kind # "route"
             /\ last'.router = None
             /\ api_key # ""
                  => calls' = <<completion_request(
                                   Append(messages, Msg("user", last'.prompt[1])))>>
             /\ ~planning_active' ]_vars

\* a message answered under Standard
C8_Witness ==
    /\ condition = STANDARD
    /\ IsSend
    /\ api_key # ""
    /\ Len(calls) = 1
    /\ trace = <<"append_user", "completion", "append_assistant">>

\* C9: a reset leaves the single greeting, planning_active false and
\* pending_question empty, from every reachable state; and resetting the
\* state a reset produces gives that state again.
C9_ResetIdempotent ==
    /\ last.action = "reset" => state = <<GreetingOnly, FALSE, "">>
    /\ reset_state(state) = <<GreetingOnly, FALSE, "">>
    /\ reset_state(reset_state(state)) = reset_state(state)

\* the session was reset
C9_Witness ==
    /\ last.action = "reset"
    /\ trace = <<"reset", "rerun">>
    /\ messages = GreetingOnly
    /\ ~planning_active

\* C10: a plan submission with a credential sends the history followed by
\* exactly one user message, the synthesized instruction built from
\* pending_question and the plan; and when the stream ends without a provider
\* error the history grows by exactly one message, the assistant's.
C10_PlanRequestAndGrowth ==
    [][ (last'.action = "submit" /\ api_key # "")
          => /\ calls' = <<completion_request(
                              Append(messages,
                                     Msg("user", sys_instruction(pending_question,
                                                                 last'.plan[1]))))>>
             /\ last'.stream[1].failed = "none"
                  => /\ Len(messages') = Len(messages) + 1
                     /\ SubSeq(messages', 1, Len(messages)) = messages
                     /\ messages'[Len(messages')].role = "assistant" ]_vars


\* earlier is a prefix of later
IsPrefix(earlier, later) ==
    /\ Len(earlier) <= Len(later)
    /\ SubSeq(later, 1, Len(earlier)) = earlier

\* C11: the history is append-only: every script run other than a reset
\* leaves the history it found as a prefix of the history it leaves.
C11_HistoryAppendOnly ==
    [][ last'.action # "reset" => IsPrefix(messages, messages') ]_vars

\* a plan submission has appended the reply to a history that already held
\* the greeting and the question
C11_Witness ==
    /\ IsSubmit
    /\ ~planning_active
    /\ Len(messages) = 3
    /\ messages[3].role = "assistant"


\* the routing requests among the last run's provider calls
RouteCalls == {i \in 1..Len(calls) : calls[i].kind = "route"}

\* C12: one script run makes at most one routing call and at most one
\* completion call, the routing call first; a plan submission and a reset
\* make no routing call, and a reset makes no call at all.
C12_AtMostOneCallEach ==
    /\ Cardinality(RouteCalls) <= 1
    /\ Cardinality(CompletionCalls) <= 1
    /\ \A r \in RouteCalls, c \in CompletionCalls : r < c
    /\ RouteCalls \cup CompletionCalls = 1..Len(calls)
    /\ last.action \in {"submit", "reset"} => RouteCalls = {}
    /\ last.action = "reset" => calls = <<>>

\* a sent message was routed as a continuation and then answered
C12_Witness ==
    /\ IsSend
    /\ Len(calls) = 2
    /\ calls[1].kind = "route"
    /\ calls[2].kind = "completion"
    /\ trace = <<"append_user", "route", "completion", "append_assistant">>


----------------------------------------------------------------------------
(* is_new_topic on its own: the function applied to histories, prompts and  *)
(* provider replies drawn from bounded sets                                 *)

\* the longest reply text enumerated over RouterAlphabet
MaxTextLen == 3

RouterAlphabet == {"N", "n", "E", "e", "W", "w", " ", "x"}

\* the reply texts: those of the session model and every short text
ClassifierTexts ==
    RouterTexts \cup UNION {[1..n -> RouterAlphabet] : n \in 0..MaxTextLen}

ClassifierOutcomes ==
    {[raises |-> TRUE, choices |-> <<>>]}
    \cup {[raises |-> FALSE, choices |-> <<>>]}
    \cup {[raises |-> FALSE, choices |-> <<[message |-> [content |-> c]]>>] :
             c \in {None} \cup {Some(t) : t \in ClassifierTexts}}

\* the histories is_new_topic is applied to: empty, one message, three
ClassifierHistories ==
    { <<>>,
      GreetingOnly,
      GreetingOnly \o <<Msg("user", "What is Speciation?"), Msg("assistant", "a")>> }

\* the arguments of one call and the reply the provider will give to it
RouterInit ==
    /\ messages \in ClassifierHistories
    /\ planning_active = FALSE
    /\ pending_question = ""
    /\ api_key = "gsk_key"
    /\ condition = PLANNING
    /\ calls = <<>>
    /\ trace = <<>>
    /\ \E p \in Prompts, o \in ClassifierOutcomes :
          last = [action |-> "classify_input", prompt |-> Some(p),
                  router |-> Some(o), result |-> None]

\* one call of is_new_topic(client, history, new_prompt)
Classify ==
    /\ last.action = "classify_input"
    /\ last' = [last EXCEPT
                  !.action = "classified",
                  !.result = Some(is_new_topic(messages, last.prompt[1],
                                               last.router[1]))]
    /\ calls' = IF router_calls_provider(messages)
                THEN <<router_request(messages, last.prompt[1])>>
                ELSE <<>>
    /\ trace' = IF router_calls_provider(messages) THEN <<"route">> ELSE <<>>
    /\ UNCHANGED <<messages, planning_active, pending_question, api_key, condition>>

RouterNext == Classify

RouterSpec == RouterInit /\ [][RouterNext]_vars

\* is_new_topic has returned, having asked the provider and got a reply text
Classified ==
    /\ last.action = "classified"
    /\ messages # <<>>
    /\ ~RouterFailed(last.router[1])

ReplyText == last.router[1].choices[1].message.content[1]

\* the same letter, whatever the case
SameLetter(a, b) ==
    \/ a = b
    \/ \E k \in 1..Len(Lower) : {a, b} = {Lower[k], Upper[k]}

\* text contains word, compared case-insensitively
ContainsIgnoringCase(word, text) ==
    \E i \in 0..(Len(text) - Len(word)) :
        \A j \in 1..Len(word) : SameLetter(text[i + j], word[j])

\* C13: for every reply text of the router, is_new_topic returns True when
\* the text, compared case-insensitively, contains "NEW", and False for every
\* other text.
C13_NewIffContainsNew ==
    Classified
      => (last.result[1] <=> ContainsIgnoringCase(NEW_TOKEN, ReplyText))

\* the reply " new" with a newline, in lower case, was classified as a new topic
C13_Witness ==
    /\ Classified
    /\ ReplyText = <<" ", "n", "e", "w", "\n">>
    /\ last.result = Some(TRUE)


CONTINUATION_TOKEN == <<"C","O","N","T","I","N","U","A","T","I","O","N">>

\* C14: a reply text that contains neither "NEW" nor "CONTINUATION" is
\* handled like a provider error, so is_new_topic returns True for it; False
\* is returned only for a reply that reads CONTINUATION.
C14_UnrecognizedReplyIsNewTopic ==
    Classified
      => /\ (/\ ~ContainsIgnoringCase(NEW_TOKEN, ReplyText)
             /\ ~ContainsIgnoringCase(CONTINUATION_TOKEN, ReplyText))
               => last.result = Some(TRUE)
         /\ last.result = Some(FALSE)
               => ContainsIgnoringCase(CONTINUATION_TOKEN, ReplyText)

\* C15: on an empty history is_new_topic returns True for every prompt, and
\* does so without a provider call.
C15_EmptyHistoryIsNewTopic ==
    (last.action = "classified" /\ messages = <<>>)
      => /\ last.result = Some(TRUE)
         /\ calls = <<>>
         /\ trace = <<>>

\* is_new_topic returned on an empty history, where the provider would have
\* answered CONTINUATION
C15_Witness ==
    /\ last.action = "classified"
    /\ messages = <<>>
    /\ last.result = Some(TRUE)
    /\ last.router = Some([raises |-> FALSE,
                           choices |-> <<[message |->
                               [content |-> Some(CONTINUATION_TOKEN)]]>>])


----------------------------------------------------------------------------
(* parse_groq_stream on its own: the generator applied to chunk sequences   *)
(* drawn from a bounded set                                                 *)

\* the longest chunk sequence the generator is applied to
MaxStreamLen == 3

ParserDeltas == {"", "a", "b"}

ParserChunks ==
    {[choices |-> <<>>]}
    \cup {[choices |-> <<[delta |-> [content |-> c]]>>] :
             c \in {None} \cup {Some(d) : d \in ParserDeltas}}

ParserStreams == UNION {[1..n -> ParserChunks] : n \in 0..MaxStreamLen}

\* the stream the provider returned
ParserInit ==
    /\ messages = GreetingOnly
    /\ planning_active = FALSE
    /\ pending_question = ""
    /\ api_key = "gsk_key"
    /\ condition = STANDARD
    /\ calls = <<>>
    /\ trace = <<>>
    /\ \E cs \in ParserStreams :
          last = [action |-> "parse_input", chunks |-> cs,
                  fragments |-> None, text |-> None]

\* st.write_stream(parse_groq_stream(stream)) on a stream that does not raise
Parse ==
    /\ last.action = "parse_input"
    /\ last' = [last EXCEPT
                  !.action = "parsed",
                  !.fragments = Some(parse_groq_stream(last.chunks)),
                  !.text = Some(write_stream(parse_groq_stream(last.chunks)))]
    /\ UNCHANGED <<messages, planning_active, pending_question, api_key,
                   condition, calls, trace>>

ParserNext == Parse

ParserSpec == ParserInit /\ [][ParserNext]_vars

\* the positions of the chunks that carry a content delta
WithDelta(chunks) ==
    {i \in 1..Len(chunks) :
        /\ chunks[i].choices # <<>>
        /\ chunks[i].choices[1].delta.content # None}

\* the position of the k-th chunk that carries a content delta
NthWithDelta(chunks, k) ==
    CHOOSE i \in WithDelta(chunks) :
        Cardinality({j \in WithDelta(chunks) : j < i}) = k - 1

\* the provider's content deltas from the k-th on, concatenated
RECURSIVE DeltaText(_, _)
DeltaText(chunks, k) ==
    IF k > Cardinality(WithDelta(chunks)) THEN ""
    ELSE chunks[NthWithDelta(chunks, k)].choices[1].delta.content[1]
         \o DeltaText(chunks, k + 1)

\* C16: the fragments parse_groq_stream yields are exactly the content deltas
\* of the chunks that have one, in the chunks' order; chunks without choices
\* or without a content delta yield nothing; and the fragments concatenated
\* are the provider's content deltas concatenated.
C16_FragmentsAreTheDeltas ==
    last.action = "parsed"
      => LET frags == last.fragments[1]
         IN /\ Len(frags) = Cardinality(WithDelta(last.chunks))
            /\ \A k \in 1..Len(frags) :
                  frags[k] = last.chunks[NthWithDelta(last.chunks, k)]
                                 .choices[1].delta.content[1]
            /\ last.text[1] = DeltaText(last.chunks, 1)

\* two deltas around a chunk without content came out in order
C16_Witness ==
    /\ last.action = "parsed"
    /\ Len(last.chunks) = 3
    /\ last.chunks[2].choices # <<>>
    /\ last.chunks[2].choices[1].delta.content = None
    /\ last.fragments = Some(<<"b", "a">>)
    /\ last.text = Some("ba")


----------------------------------------------------------------------------
(* Further properties of the session *)

\* C17: whenever planning_active is true, the last message of the history is
\* a user message whose content is pending_question.
C17_PendingIsLastUserMessage ==
    planning_active
      => /\ messages # <<>>
         /\ messages[Len(messages)] = Msg("user", pending_question)

\* the plan form is still waiting after a submission without a credential
C17_Witness ==
    /\ planning_active
    /\ IsSubmit
    /\ api_key = ""
    /\ messages[Len(messages)] = Msg("user", pending_question)

\* the last plan submission made the completion call and got a truthy reply
SubmitSucceeded(l) ==
    /\ l.action = "submit"
    /\ l.stream # None
    /\ Truthy(l.stream[1].response)

\* the last plan submission had no credential, or its completion call failed
SubmitFailed(l) ==
    /\ l.action = "submit"
    /\ \/ l.stream = None
       \/ l.stream[1].failed # "none"

\* C18: while planning_active is true no user message is accepted, and the
\* session leaves planning only by a successful plan submission or a reset;
\* a failed or credential-less submission and a change of the condition (to
\* Standard too) leave planning_active, pending_question and the history as
\* they were.
C18_PlanningOnlyLeftBySubmitOrReset ==
    [][ planning_active
          => /\ last'.action # "send"
             /\ ~planning_active'
                  => (last'.action = "reset" \/ SubmitSucceeded(last'))
             /\ (SubmitFailed(last') \/ last'.action = "condition")
                  => state' = state ]_vars

\* the condition was switched to Standard while the plan form was waiting
C18_Witness ==
    /\ planning_active
    /\ last.action = "condition"
    /\ condition = STANDARD

\* C19: the first message of the history is always the assistant's greeting,
\* and the history never holds two assistant messages in a row.
C19_GreetingFirstNoTwoAssistants ==
    /\ messages # <<>>
    /\ messages[1] = Msg("assistant", GREETING)
    /\ \A i \in 1..(Len(messages) - 1) :
          ~(messages[i].role = "assistant" /\ messages[i + 1].role = "assistant")

\* a reply was appended after two user messages, the first left unanswered
C19_Witness ==
    /\ Len(messages) = 4
    /\ messages[2].role = "user"
    /\ messages[3].role = "user"
    /\ messages[4].role = "assistant"

\* C20: the router is handed the history without the message just sent, which
\* is never empty because the greeting is always there: every message sent
\* under Planning-Intervention with a credential makes exactly one routing
\* call, built from that history.
C20_RouterAlwaysCalledOnPriorHistory ==
    [][ (/\ last'.action = "send"
         /\ api_key # ""
         /\ condition = PLANNING)
          => /\ router_history(Append(messages, Msg("user", last'.prompt[1])))
                  = messages
             /\ messages # <<>>
             /\ last'.router # None
             /\ Cardinality({i \in 1..Len(calls') : calls'[i].kind = "route"}) = 1
             /\ calls'[1] = [kind |-> "route",
                             messages |-> <<Msg("user",
                                 [context |-> router_context(messages),
                                  new_prompt |-> last'.prompt[1]])>>] ]_vars

\* a second message was routed on a history of the greeting and the first
\* message
C20_Witness ==
    /\ IsSend
    /\ condition = PLANNING
    /\ api_key # ""
    /\ Len(messages) >= 3
    /\ Len(calls) >= 1
    /\ calls[1].kind = "route"
    /\ calls[1].messages[1].content.context
          = SubSeq(messages, 1, 2)

====
